---- MODULE Spec2Model ----
(***************************************************************************)
(* Verification model of the button-press solver of src/day10/main.py:     *)
(* the Schematic value, the exhaustive strategy brute_force_solver, and    *)
(* the ButtonPressSolver session with its JSON-backed result cache; and of *)
(* the functions of the other days that the later sections name.           *)
(***************************************************************************)
EXTENDS Integers, Sequences, FiniteSets, TLC

VARIABLES
    save_file,       \* the backing store on disk (self.save_file's content)
    results,         \* self.results: fingerprint -> press count
    pos,             \* where the session object is in its life: init/loaded/closed
    last,            \* observation of the last call made on the session
    session_log,     \* fingerprint -> what solve returned for it since the last enter
    file_at_enter,   \* the backing store as it was when the session was entered
    strategy_calls,  \* call-count hook on brute_force_solver
    nsolves,         \* number of solve calls made so far
    nsessions,       \* number of __enter__ calls made so far
    strategy_arg,    \* argument of the strategy call under study
    strategy_ret,    \* what that strategy call returned
    gf2_ret,         \* what the elimination solver gave for the same schematic
    fingerprint,     \* the cache key computed for the schematic under study
    other_results,   \* day10: self.results of a second session on the same file
    other_pos,       \* day10: where that second session is in its life
    other_seen,      \* day10: where the first session stood at its enter and exit
    current_rotation,   \* day1: the dial position
    total_rotations,    \* day1: Direction -> times the dial pointed at 0
    turn,               \* day1: the last step applied and the position it left
    ranges,             \* day5: the argument of merge_ranges
    merged_ranges,      \* day5: what merge_ranges returned
    junction_boxes,     \* day8: the list of boxes
    sorted_distances,   \* day8: index pairs not processed yet, nearest first
    circuits,           \* day8: the list of circuits
    iteration,          \* day8: the loop counter of create_circuits
    max_iterations,     \* day8: the argument of that name
    connected,          \* day8: the index pairs processed so far
    circuits_pc,        \* day8: where create_circuits stands
    manifold_line,             \* day7: the line propagated through
    path_count_per_position,   \* day7: position -> timelines
    path_count_entered,        \* day7: the same dict when the line was entered
    batteries,          \* day3: the battery bank
    length_sequence,    \* day3: how many batteries are switched on
    max_joltage,        \* day3: what determine_maximum_joltage_second_part returned
    borders,            \* day9: the border cells
    internal_point,     \* day9: the seed
    visited,            \* day9: the set flood_fill builds
    queue,              \* day9: the deque of flood_fill
    tries,              \* day9: the counter of flood_fill
    flood_pc,           \* day9: where flood_fill stands
    printing_puzzle,        \* day4: the grid of rolls
    removed_per_iteration,  \* day4: the counts written by the loop so far
    paper_iteration,        \* day4: the loop variable i of main
    paper_pc,               \* day4: where the loop of main stands
    rolls_read              \* day4: the number of rolls read

vars == <<save_file, results, pos, last, session_log, file_at_enter,
          strategy_calls, nsolves, nsessions, strategy_arg, strategy_ret,
          gf2_ret, fingerprint,
          other_results, other_pos, other_seen,
          current_rotation, total_rotations, turn,
          ranges, merged_ranges,
          junction_boxes, sorted_distances, circuits, iteration,
          max_iterations, connected, circuits_pc,
          manifold_line, path_count_per_position, path_count_entered,
          batteries, length_sequence, max_joltage,
          borders, internal_point, visited, queue, tries, flood_pc,
          printing_puzzle, removed_per_iteration, paper_iteration, paper_pc,
          rolls_read>>

overlap_vars == <<other_results, other_pos, other_seen>>

day1_vars == <<current_rotation, total_rotations, turn>>

day5_vars == <<ranges, merged_ranges>>

day8_vars == <<junction_boxes, sorted_distances, circuits, iteration,
               max_iterations, connected, circuits_pc>>

day7_vars == <<manifold_line, path_count_per_position, path_count_entered>>

day3_vars == <<batteries, length_sequence, max_joltage>>

day9_vars == <<borders, internal_point, visited, queue, tries, flood_pc>>

day4_vars == <<printing_puzzle, removed_per_iteration, paper_iteration,
               paper_pc, rolls_read>>

\* everything outside the session and the strategy call
cross_vars == <<gf2_ret, fingerprint, overlap_vars, day1_vars, day5_vars,
                day8_vars, day7_vars, day3_vars, day9_vars, day4_vars>>

session_vars == <<save_file, results, pos, last, session_log, file_at_enter,
                  strategy_calls, nsolves, nsessions>>

(***************************************************************************)
(* Bounds of the model.                                                    *)
(***************************************************************************)
MaxLights == 2
MaxButtons == 3
MaxJoltage == 1
SessPoolSize == 6
MaxSolves == 2
MaxSessions == 2
SeedCount == 7
SeedManyPresses == 12

(***************************************************************************)
(* Program constants.                                                      *)
(***************************************************************************)
MinPressesInit == 100000

\* what a call hands back: None, or the value returned
None == <<>>
Returned(value) == <<value>>
Bit == {0, 1}

(***************************************************************************)
(* Schematic: lights of shape (n_lights,), button_wiring of shape          *)
(* (n_lights, n_buttons) kept as a sequence of rows together with its      *)
(* column count (numpy's shape[1], which survives n_lights = 0), and the   *)
(* joltage requirements.                                                   *)
(***************************************************************************)
Schematic(lights, n_buttons, button_wiring, joltage_requirements) ==
    [lights |-> lights, n_buttons |-> n_buttons,
     button_wiring |-> button_wiring,
     joltage_requirements |-> joltage_requirements]

JoltageVectors == {<<j>> : j \in 0..MaxJoltage}

\* schematic is one of the schematics of n_lights lights and n_buttons buttons
IsSchematicOfShape(schematic, n_lights, n_buttons) ==
    \E lights \in [1..n_lights -> Bit] :
        \E button_wiring \in [1..n_lights -> [1..n_buttons -> Bit]] :
            \E joltage_requirements \in JoltageVectors :
                schematic = Schematic(lights, n_buttons, button_wiring,
                                      joltage_requirements)

\* The schematics handed to a session, in the order of an input file: the
\* three wirings of the documented examples (one button on light 0 only with
\* target [1,1]; two independent buttons; two identical buttons), a target
\* that is already all off, the second one again with other joltage
\* requirements, and smaller ones.
InputFile ==
    << Schematic(<<1, 1>>, 1, <<(<<1>>), (<<0>>)>>, <<0, 0>>),
       Schematic(<<1, 0>>, 2, <<(<<1, 0>>), (<<0, 1>>)>>, <<0, 0>>),
       Schematic(<<0, 0>>, 2, <<(<<1, 0>>), (<<0, 1>>)>>, <<0, 0>>),
       Schematic(<<1, 1>>, 2, <<(<<1, 1>>), (<<1, 1>>)>>, <<0, 0>>),
       Schematic(<<1, 0>>, 2, <<(<<1, 0>>), (<<0, 1>>)>>, <<0, 1>>),
       Schematic(<<1>>, 0, <<(<<>>)>>, <<0>>),
       Schematic(<<1>>, 1, <<(<<1>>)>>, <<0>>),
       Schematic(<<>>, 0, <<>>, <<0>>) >>

SessionSchematics ==
    {InputFile[i] : i \in 1..(IF SessPoolSize < Len(InputFile)
                               THEN SessPoolSize ELSE Len(InputFile))}

(***************************************************************************)
(* brute_force_solver                                                      *)
(***************************************************************************)
Pow2(n) == 2 ^ n

\* max written where min was meant
Min_is_max(a, b) == IF a > b THEN a ELSE b

Min(a, b) == IF a < b THEN a ELSE b

\* presses = [int((i >> j) & 1) for j in range(n_buttons)]
Presses(i, n_buttons) == [j \in 1..n_buttons |-> (i \div Pow2(j - 1)) % 2]

\* sum(presses)
RECURSIVE SumSeq(_)
SumSeq(s) == IF s = <<>> THEN 0 ELSE s[1] + SumSeq(Tail(s))

\* schematic.button_wiring[:, button_idx]
Column(schematic, button_idx) ==
    [r \in 1..Len(schematic.lights) |-> schematic.button_wiring[r][button_idx]]

\* |= written where ^= was meant: a pressed button only switches lights on
XorVec_or(a, b) == [r \in 1..Len(a) |-> IF a[r] + b[r] > 0 THEN 1 ELSE 0]

\* a ^ b on arrays of 0/1 integers
XorVec(a, b) == [r \in 1..Len(a) |-> (a[r] + b[r]) % 2]

\* np.zeros_like(schematic.lights)
ZerosLike(v) == [r \in 1..Len(v) |-> 0]

\* the inner loop: for button_idx, pressed in enumerate(presses)
RECURSIVE ToggleFrom(_, _, _, _)
ToggleFrom(schematic, presses, button_idx, resulting_lights) ==
    IF button_idx > Len(presses) THEN resulting_lights
    ELSE ToggleFrom(schematic, presses, button_idx + 1,
                    IF presses[button_idx] = 1
                    THEN XorVec(resulting_lights, Column(schematic, button_idx))
                    ELSE resulting_lights)

ResultingLights(schematic, presses) ==
    ToggleFrom(schematic, presses, 1, ZerosLike(schematic.lights))

\* a match overwrites the running minimum instead of being compared with it
SearchStep_overwrite(schematic, i, min_presses) ==
    LET presses == Presses(i, schematic.n_buttons)
    IN  IF ResultingLights(schematic, presses) = schematic.lights
        THEN SumSeq(presses)
        ELSE min_presses

\* a match has to meet the joltage requirements as well
SearchStep_checks_joltage(schematic, i, min_presses) ==
    LET presses == Presses(i, schematic.n_buttons)
    IN  IF /\ ResultingLights(schematic, presses) = schematic.lights
           /\ SumSeq(presses) >= SumSeq(schematic.joltage_requirements)
        THEN Min(min_presses, SumSeq(presses))
        ELSE min_presses

\* one iteration of: for i in range(1 << n_buttons)
SearchStep(schematic, i, min_presses) ==
    LET presses == Presses(i, schematic.n_buttons)
    IN  IF ResultingLights(schematic, presses) = schematic.lights
        THEN Min(min_presses, SumSeq(presses))
        ELSE min_presses

RECURSIVE SearchFrom(_, _, _)
SearchFrom(schematic, i, min_presses) ==
    IF i >= Pow2(schematic.n_buttons) THEN min_presses
    ELSE SearchFrom(schematic, i + 1, SearchStep(schematic, i, min_presses))

\* The arrays the search touches, as objects: the schematic handed in and
\* the array the name resulting_lights is bound to (ref says which object
\* that is: a new one, or the schematic's own lights).
Memory(schematic) ==
    [schematic |-> schematic, resulting_lights |-> <<>>, ref |-> "new"]

\* resulting_lights = schematic.lights: the name is bound to the target itself
resulting_lights_is_lights(mem) == [mem EXCEPT !.ref = "lights"]

\* resulting_lights = np.zeros_like(schematic.lights): a new array
resulting_lights_new(mem) ==
    [mem EXCEPT !.resulting_lights = ZerosLike(mem.schematic.lights),
                !.ref = "new"]

\* resulting_lights ^= column: the object the name is bound to is updated
ixor(mem, column) ==
    IF mem.ref = "new"
    THEN [mem EXCEPT !.resulting_lights = XorVec(@, column)]
    ELSE [mem EXCEPT !.schematic.lights = XorVec(@, column)]

RECURSIVE ToggleInPlace(_, _, _)
ToggleInPlace(mem, presses, b) ==
    IF b > mem.schematic.n_buttons THEN mem
    ELSE ToggleInPlace(IF presses[b] = 1
                       THEN ixor(mem, Column(mem.schematic, b))
                       ELSE mem,
                       presses, b + 1)

RECURSIVE SearchInPlace(_, _)
SearchInPlace(mem, i) ==
    IF i >= Pow2(mem.schematic.n_buttons) THEN mem
    ELSE SearchInPlace(ToggleInPlace(resulting_lights_new(mem),
                                     Presses(i, mem.schematic.n_buttons), 1),
                       i + 1)

\* the schematic object as brute_force_solver leaves it
brute_force_solver_leaves(schematic) ==
    SearchInPlace(Memory(schematic), 0).schematic

\* the initial value leaks out when nothing matched
brute_force_solver_nosentinel(schematic) ==
    SearchFrom(schematic, 0, MinPressesInit)

\* the enumeration starts at 1: the empty subset is never examined
brute_force_solver_skip_empty(schematic) ==
    LET min_presses == SearchFrom(schematic, 1, MinPressesInit)
    IN  IF min_presses # MinPressesInit THEN min_presses ELSE -1

brute_force_solver(schematic) ==
    LET min_presses == SearchFrom(schematic, 0, MinPressesInit)
    IN  IF min_presses # MinPressesInit THEN min_presses ELSE -1

(***************************************************************************)
(* GF2LinearSolver: Gaussian elimination over GF(2) with column-major      *)
(* pivoting, as the design describes it (section 4.1): for each column c   *)
(* the rows c..L are scanned for a 1, the row found is swapped into        *)
(* position c together with its target entry, and every other row with a 1 *)
(* in column c is XORed with the pivot row, target entries likewise.       *)
(***************************************************************************)
RowXor(a, b) == [k \in 1..Len(a) |-> (a[k] + b[k]) % 2]

System(matrix, target) == [matrix |-> matrix, target |-> target]

\* step 1: the first row of c..L with a 1 in column c, 0 when there is none
PivotCandidate(sys, c) ==
    LET rows == {r \in c..Len(sys.target) : sys.matrix[r][c] = 1}
    IN  IF rows = {} THEN 0
        ELSE CHOOSE r \in rows : \A q \in rows : r <= q

\* the rows are swapped in the matrix only
SwapRows_matrix_only(sys, a, b) ==
    LET Other(r) == IF r = a THEN b ELSE IF r = b THEN a ELSE r
    IN  System([r \in 1..Len(sys.target) |-> sys.matrix[Other(r)]], sys.target)

\* step 2: swap the rows, in the matrix and in the target, in lock-step
SwapRows(sys, a, b) ==
    LET Other(r) == IF r = a THEN b ELSE IF r = b THEN a ELSE r
    IN  System([r \in 1..Len(sys.target) |-> sys.matrix[Other(r)]],
               [r \in 1..Len(sys.target) |-> sys.target[Other(r)]])

\* the target entry is left alone when a row is replaced
EliminateRow_matrix_only(sys, r, pivot) ==
    System([q \in 1..Len(sys.target) |->
               IF q = r THEN RowXor(sys.matrix[r], sys.matrix[pivot])
               ELSE sys.matrix[q]],
           sys.target)

\* step 3 for one row: row r becomes row[r] XOR row[pivot], target likewise
EliminateRow(sys, r, pivot) ==
    System([q \in 1..Len(sys.target) |->
               IF q = r THEN RowXor(sys.matrix[r], sys.matrix[pivot])
               ELSE sys.matrix[q]],
           [q \in 1..Len(sys.target) |->
               IF q = r THEN (sys.target[r] + sys.target[pivot]) % 2
               ELSE sys.target[q]])

\* step 3: every row other than the pivot row that has a 1 in column c
RECURSIVE EliminateFrom(_, _, _)
EliminateFrom(sys, c, r) ==
    IF r > Len(sys.target) THEN sys
    ELSE EliminateFrom(IF r # c /\ sys.matrix[r][c] = 1
                       THEN EliminateRow(sys, r, c) ELSE sys,
                       c, r + 1)

\* steps 1 to 3 for column c; a column without candidate is skipped
ColumnStep(sys, c) ==
    LET found == PivotCandidate(sys, c)
    IN  IF found = 0 THEN sys
        ELSE EliminateFrom(SwapRows(sys, found, c), c, 1)

RECURSIVE ReduceFrom(_, _, _)
ReduceFrom(sys, c, n_buttons) ==
    IF c > n_buttons THEN sys
    ELSE ReduceFrom(ColumnStep(sys, c), c + 1, n_buttons)

IsZeroRow(row) == \A k \in 1..Len(row) : row[k] = 0

\* step 4 and the failure condition: the 1-bits left in the reduced target
\* are the press count; a zero row with a non-zero target entry is
\* InconsistentSystem
GF2LinearSolver_solve(wiring, n_buttons, target) ==
    LET reduced == ReduceFrom(System(wiring, target), 1, n_buttons)
    IN  [min_presses |-> SumSeq(reduced.target),
         reduced_matrix |-> reduced.matrix,
         reduced_target |-> reduced.target,
         InconsistentSystem |->
             \E r \in 1..Len(target) :
                 IsZeroRow(reduced.matrix[r]) /\ reduced.target[r] = 1]

(***************************************************************************)
(* Fingerprint: hashlib.md5(str(schematic).encode()).hexdigest().          *)
(* str(schematic) is the tabulate table of matrix_representation under the *)
(* header "Light State", "Button 0", ..., followed by the joltage list.    *)
(* md5 is modelled as collision-free on the texts of the model.            *)
(***************************************************************************)
matrix_representation_without_lights(schematic) ==
    [r \in 1..Len(schematic.lights) |-> <<0>> \o schematic.button_wiring[r]]

matrix_representation(schematic) ==
    [r \in 1..Len(schematic.lights) |->
        <<schematic.lights[r]>> \o schematic.button_wiring[r]]

Header(schematic) ==
    <<"Light State">> \o [i \in 1..schematic.n_buttons |-> <<"Button", i - 1>>]

str(schematic) ==
    [table |-> <<Header(schematic), matrix_representation(schematic)>>,
     joltage_str |-> <<"Joltage Requirements: ", schematic.joltage_requirements>>]

md5(text) == <<"md5", text>>

\* the key is taken of the wiring alone
schematic_hash_of_wiring(schematic) == md5(schematic.button_wiring)

schematic_hash(schematic) == md5(str(schematic))

(***************************************************************************)
(* The JSON document: an object whose members map the key to the decimal   *)
(* text of the value, as json.dump writes an int and json.load reads it.   *)
(***************************************************************************)
DigitChars == <<"0", "1", "2", "3", "4", "5", "6", "7", "8", "9">>

RECURSIVE NatToStr(_)
NatToStr(n) ==
    IF n < 10 THEN <<DigitChars[n + 1]>>
    ELSE NatToStr(n \div 10) \o <<DigitChars[(n % 10) + 1]>>

\* the sign is lost on the way to the file
IntToStr_unsigned(n) == IF n < 0 THEN NatToStr(0 - n) ELSE NatToStr(n)

IntToStr(n) == IF n < 0 THEN <<"-">> \o NatToStr(0 - n) ELSE NatToStr(n)

DigitValue(c) == CHOOSE d \in 0..9 : DigitChars[d + 1] = c

RECURSIVE StrToNat(_, _)
StrToNat(s, acc) ==
    IF s = <<>> THEN acc ELSE StrToNat(Tail(s), 10 * acc + DigitValue(s[1]))

StrToInt(s) == IF s[1] = "-" THEN 0 - StrToNat(Tail(s), 0) ELSE StrToNat(s, 0)

AbsentFile == [kind |-> "absent", members |-> <<>>]
CorruptFile == [kind |-> "corrupt", members |-> <<>>]

\* json.dump(self.results, f, indent=2) into the file opened with "w"
json_dump(res) ==
    [kind |-> "json", members |-> [k \in DOMAIN res |-> IntToStr(res[k])]]

\* json.load(f)
json_load(file) == [k \in DOMAIN file.members |-> StrToInt(file.members[k])]

(***************************************************************************)
(* ButtonPressSolver                                                       *)
(***************************************************************************)
EmptyDict == <<>>

\* the dict is rebound to a new one that holds the new item only
Put_alone(dict, key, value) == [k \in {key} |-> value]

Put(dict, key, value) ==
    [k \in DOMAIN dict \cup {key} |-> IF k = key THEN value ELSE dict[k]]

\* the computed result is never stored
_save_result_dropped(res, schematic, presses) == res

_save_result(res, schematic, presses) ==
    Put(res, schematic_hash(schematic), presses)

\* a hit is logged but the value is computed again instead of read
solve_hit_recomputes(res, schematic) ==
    IF schematic_hash(schematic) \in DOMAIN res
    THEN [ret |-> brute_force_solver(schematic), results |-> res,
          hit |-> TRUE, invoked |-> 1,
          schematic |-> brute_force_solver_leaves(schematic)]
    ELSE LET presses == brute_force_solver(schematic)
         IN  [ret |-> presses, results |-> _save_result(res, schematic, presses),
              hit |-> FALSE, invoked |-> 1,
              schematic |-> brute_force_solver_leaves(schematic)]

\* the cache is written but never consulted
solve_never_looks(res, schematic) ==
    LET presses == brute_force_solver(schematic)
    IN  [ret |-> presses, results |-> _save_result(res, schematic, presses),
         hit |-> FALSE, invoked |-> 1,
         schematic |-> brute_force_solver_leaves(schematic)]

\* solve: the value returned, self.results afterwards, whether the cache-hit
\* line was printed, how many times the strategy was invoked and the
\* schematic object as the call leaves it
solve(res, schematic) ==
    IF schematic_hash(schematic) \in DOMAIN res
    THEN [ret |-> res[schematic_hash(schematic)], results |-> res,
          hit |-> TRUE, invoked |-> 0, schematic |-> schematic]
    ELSE LET presses == brute_force_solver(schematic)
         IN  [ret |-> presses, results |-> _save_result(res, schematic, presses),
              hit |-> FALSE, invoked |-> 1,
              schematic |-> brute_force_solver_leaves(schematic)]

\* the file is opened without the exists() test
__enter___no_exists_test(file, res) ==
    IF file.kind = "json" THEN [raised |-> FALSE, results |-> json_load(file)]
    ELSE [raised |-> TRUE, results |-> res]

\* __enter__: whether it raised, and self.results afterwards
__enter__(file, res) ==
    IF file.kind = "absent" THEN [raised |-> FALSE, results |-> EmptyDict]
    ELSE IF file.kind = "corrupt" THEN [raised |-> TRUE, results |-> res]
    ELSE [raised |-> FALSE, results |-> json_load(file)]

\* the flush is not guarded by exc_type
__exit___always_flushes(file, res, exc) == json_dump(res)

\* the flush adds the mapping to what the file holds
__exit___merges(file, res, exc) ==
    IF exc THEN file
    ELSE json_dump([k \in DOMAIN file.members \cup DOMAIN res |->
                       IF k \in DOMAIN res THEN res[k]
                       ELSE StrToInt(file.members[k])])

\* __exit__: the backing store afterwards
__exit__(file, res, exc) == IF exc THEN file ELSE json_dump(res)

(***************************************************************************)
(* The parts of the state a specification does not use stay as they are    *)
(* written here.                                                           *)
(***************************************************************************)
NotSeen == [at_enter |-> "none", at_exit |-> "none", exc |-> FALSE]

OverlapIdle ==
    other_results = <<>> /\ other_pos = "init" /\ other_seen = NotSeen

Day1Idle == current_rotation = 0 /\ total_rotations = <<>> /\ turn = <<>>

Day5Idle == ranges = <<>> /\ merged_ranges = <<>>

Day8Idle ==
    /\ junction_boxes = <<>>
    /\ sorted_distances = <<>>
    /\ circuits = <<>>
    /\ iteration = 0
    /\ max_iterations = 0
    /\ connected = {}
    /\ circuits_pc = "idle"

Day7Idle ==
    /\ manifold_line = <<>>
    /\ path_count_per_position = <<>>
    /\ path_count_entered = <<>>

Day3Idle == batteries = 0 /\ length_sequence = 0 /\ max_joltage = <<>>

Day9Idle ==
    /\ borders = {}
    /\ internal_point = <<>>
    /\ visited = {}
    /\ queue = <<>>
    /\ tries = 0
    /\ flood_pc = "idle"

\* no matrix read yet
NoPuzzle == [shape |-> <<0, 0>>, rows |-> <<>>]

Day4Idle ==
    /\ printing_puzzle = NoPuzzle
    /\ removed_per_iteration = <<>>
    /\ paper_iteration = 0
    /\ paper_pc = "idle"
    /\ rolls_read = 0

OtherDaysIdle ==
    /\ Day1Idle /\ Day5Idle /\ Day8Idle /\ Day7Idle
    /\ Day3Idle /\ Day9Idle /\ Day4Idle

(***************************************************************************)
(* The session as a state machine.                                         *)
(***************************************************************************)
NoSchematic == Schematic(<<>>, 0, <<>>, <<>>)

Observed(op, arg, ret, hit, raised, exc, after) ==
    [op |-> op, arg |-> arg, ret |-> ret, hit |-> hit, raised |-> raised,
     exc |-> exc, after |-> after]

\* a backing store left by an earlier run: empty, or one seeded entry
SeededFiles ==
    {json_dump(EmptyDict)} \cup
    {json_dump(Put(EmptyDict, schematic_hash(s), v)) :
        s \in SessionSchematics, v \in {SeedCount, SeedManyPresses}}

InitialFiles == {AbsentFile, CorruptFile} \cup SeededFiles

\* ButtonPressSolver.__init__
Init ==
    /\ save_file \in InitialFiles
    /\ results = EmptyDict
    /\ pos = "init"
    /\ last = Observed("__init__", NoSchematic, None, FALSE, FALSE, FALSE,
                       NoSchematic)
    /\ session_log = <<>>
    /\ file_at_enter = save_file
    /\ strategy_calls = 0
    /\ nsolves = 0
    /\ nsessions = 0
    /\ strategy_arg = NoSchematic
    /\ strategy_ret = None
    /\ gf2_ret = None
    /\ fingerprint = None
    /\ OverlapIdle
    /\ OtherDaysIdle

\* with ButtonPressSolver(...) as solver: the call of __enter__
Enter ==
    /\ pos \in {"init", "closed"}
    /\ nsessions < MaxSessions
    /\ LET out == __enter__(save_file, results)
       IN  /\ results' = out.results
           /\ pos' = IF out.raised THEN pos ELSE "loaded"
           /\ session_log' = IF out.raised THEN session_log ELSE <<>>
           /\ file_at_enter' = IF out.raised THEN file_at_enter ELSE save_file
           /\ last' = Observed("__enter__", NoSchematic, None, FALSE,
                               out.raised, FALSE, NoSchematic)
    /\ nsessions' = nsessions + 1
    /\ UNCHANGED <<save_file, strategy_calls, nsolves, strategy_arg, strategy_ret>>
    /\ UNCHANGED cross_vars

LogSolve(log, schematic, ret, invoked) ==
    IF schematic \in DOMAIN log
    THEN Put(log, schematic,
             [first |-> log[schematic].first,
              count |-> log[schematic].count + 1,
              runs |-> log[schematic].runs + invoked])
    ELSE Put(log, schematic, [first |-> ret, count |-> 1, runs |-> invoked])

\* every solve also rewrites the backing store
Solve_writes_through(schematic) ==
    /\ nsolves < MaxSolves
    /\ LET out == solve(results, schematic)
       IN  /\ results' = out.results
           /\ save_file' = json_dump(out.results)
           /\ strategy_calls' = strategy_calls + out.invoked
           /\ session_log' = LogSolve(session_log, schematic, out.ret, out.invoked)
           /\ last' = Observed("solve", schematic, Returned(out.ret), out.hit, FALSE,
                               FALSE, out.schematic)
    /\ nsolves' = nsolves + 1
    /\ UNCHANGED <<pos, file_at_enter, nsessions, strategy_arg, strategy_ret>>
    /\ UNCHANGED cross_vars

\* solver.solve(schematic); the class accepts the call in every position
Solve(schematic) ==
    /\ nsolves < MaxSolves
    /\ LET out == solve(results, schematic)
       IN  /\ results' = out.results
           /\ strategy_calls' = strategy_calls + out.invoked
           /\ session_log' = LogSolve(session_log, schematic, out.ret, out.invoked)
           /\ last' = Observed("solve", schematic, Returned(out.ret), out.hit, FALSE,
                               FALSE, out.schematic)
    /\ nsolves' = nsolves + 1
    /\ UNCHANGED <<save_file, pos, file_at_enter, nsessions, strategy_arg,
                   strategy_ret>>
    /\ UNCHANGED cross_vars

\* json.dump is cut short after open("w") has truncated the file: nothing
\* of the mapping is written yet
Truncated(res) == [kind |-> "corrupt", members |-> <<>>]

\* json.dump is cut short before the closing brace: every member is written
Unterminated(res) == [kind |-> "corrupt", members |-> json_dump(res).members]

\* the end of the with block without an exception in flight, the write of
\* __exit__ being interrupted or failing partway
ExitInterrupted ==
    /\ pos = "loaded"
    /\ save_file' \in {Truncated(results), Unterminated(results)}
    /\ pos' = "closed"
    /\ last' = Observed("__exit__", NoSchematic, None, FALSE, TRUE, FALSE,
                        NoSchematic)
    /\ UNCHANGED <<results, session_log, file_at_enter, strategy_calls, nsolves,
                   nsessions, strategy_arg, strategy_ret>>
    /\ UNCHANGED cross_vars

\* the end of the with block: __exit__(exc_type, ...), exc = exc_type is not None
Exit(exc) ==
    /\ pos = "loaded"
    /\ save_file' = __exit__(save_file, results, exc)
    /\ pos' = "closed"
    /\ last' = Observed("__exit__", NoSchematic, None, FALSE, FALSE, exc,
                        NoSchematic)
    /\ UNCHANGED <<results, session_log, file_at_enter, strategy_calls, nsolves,
                   nsessions, strategy_arg, strategy_ret>>
    /\ UNCHANGED cross_vars

Next ==
    \/ Enter
    \/ \E schematic \in SessionSchematics : Solve(schematic)
    \/ \E exc \in BOOLEAN : Exit(exc)

Spec == Init /\ [][Next]_vars

(***************************************************************************)
(* Two session objects on one save file, each used in one with block.      *)
(***************************************************************************)
day10_vars == <<save_file, results, pos, last, session_log, file_at_enter,
                strategy_calls, nsolves, nsessions, strategy_arg,
                strategy_ret, gf2_ret, fingerprint>>

other_days_vars == <<day1_vars, day5_vars, day8_vars, day7_vars, day3_vars,
                     day9_vars, day4_vars>>

FirstEnters == pos = "init" /\ Enter

FirstSolves(schematic) == pos = "loaded" /\ Solve(schematic)

EnterOther ==
    /\ other_pos = "init"
    /\ LET out == __enter__(save_file, other_results)
       IN  /\ other_results' = out.results
           /\ other_pos' = IF out.raised THEN other_pos ELSE "loaded"
    /\ other_seen' = [other_seen EXCEPT !.at_enter = pos]
    /\ UNCHANGED <<day10_vars, other_days_vars>>

SolveOther(schematic) ==
    /\ other_pos = "loaded"
    /\ nsolves < MaxSolves
    /\ LET out == solve(other_results, schematic)
       IN  /\ other_results' = out.results
           /\ strategy_calls' = strategy_calls + out.invoked
    /\ nsolves' = nsolves + 1
    /\ UNCHANGED <<save_file, results, pos, last, session_log, file_at_enter,
                   nsessions, strategy_arg, strategy_ret, gf2_ret, fingerprint,
                   other_pos, other_seen, other_days_vars>>

ExitOther(exc) ==
    /\ other_pos = "loaded"
    /\ save_file' = __exit__(save_file, other_results, exc)
    /\ other_pos' = "closed"
    /\ other_seen' = [other_seen EXCEPT !.at_exit = pos, !.exc = exc]
    /\ UNCHANGED <<results, pos, last, session_log, file_at_enter,
                   strategy_calls, nsolves, nsessions, strategy_arg,
                   strategy_ret, gf2_ret, fingerprint, other_results,
                   other_days_vars>>

OverlapNext ==
    \/ FirstEnters
    \/ \E schematic \in SessionSchematics : FirstSolves(schematic)
    \/ \E exc \in BOOLEAN : Exit(exc)
    \/ EnterOther
    \/ \E schematic \in SessionSchematics : SolveOther(schematic)
    \/ \E exc \in BOOLEAN : ExitOther(exc)

\* no file yet, an empty mapping, or the first schematic seeded
OverlapFiles ==
    {AbsentFile, json_dump(EmptyDict),
     json_dump(Put(EmptyDict, schematic_hash(InputFile[1]), SeedCount))}

OverlapInit == Init /\ save_file \in OverlapFiles

OverlapSpec == OverlapInit /\ [][OverlapNext]_vars

CrashNext ==
    \/ Enter
    \/ \E schematic \in SessionSchematics : Solve(schematic)
    \/ \E exc \in BOOLEAN : Exit(exc)
    \/ ExitInterrupted

\* the session in an environment in which a write can be interrupted
CrashSpec == Init /\ [][CrashNext]_vars

(***************************************************************************)
(* The strategy on its own: one call of brute_force_solver on a schematic  *)
(* drawn from the bounded set.                                             *)
(***************************************************************************)
SolverInit ==
    /\ save_file = AbsentFile
    /\ results = EmptyDict
    /\ pos = "init"
    /\ last = Observed("__init__", NoSchematic, None, FALSE, FALSE, FALSE,
                       NoSchematic)
    /\ session_log = <<>>
    /\ file_at_enter = AbsentFile
    /\ strategy_calls = 0
    /\ nsolves = 0
    /\ nsessions = 0
    /\ \E n_lights \in 0..MaxLights :
          \E n_buttons \in 0..MaxButtons :
              IsSchematicOfShape(strategy_arg, n_lights, n_buttons)
    /\ strategy_ret = None
    /\ gf2_ret = None
    /\ fingerprint = None
    /\ OverlapIdle
    /\ OtherDaysIdle

CallStrategy ==
    /\ strategy_calls = 0
    /\ strategy_ret' = Returned(brute_force_solver(strategy_arg))
    /\ strategy_calls' = 1
    /\ UNCHANGED <<save_file, results, pos, last, session_log, file_at_enter,
                   nsolves, nsessions, strategy_arg>>
    /\ UNCHANGED cross_vars

SolverNext == CallStrategy

SolverSpec == SolverInit /\ [][SolverNext]_vars

(***************************************************************************)
(* What the strategy is to compute, stated on subsets of buttons.          *)
(***************************************************************************)
Buttons(schematic) == 1..schematic.n_buttons

\* pressing exactly the buttons of S toggles light r an odd number of times
\* iff light r is on in the target
Reproduces(schematic, S) ==
    \A r \in 1..Len(schematic.lights) :
        Cardinality({b \in S : schematic.button_wiring[r][b] = 1}) % 2
            = schematic.lights[r]

MatchingSubsets(schematic) ==
    {S \in SUBSET Buttons(schematic) : Reproduces(schematic, S)}

Solvable(schematic) == MatchingSubsets(schematic) # {}

MinSubsetSize(schematic) ==
    CHOOSE n \in 0..schematic.n_buttons :
        /\ \E S \in MatchingSubsets(schematic) : Cardinality(S) = n
        /\ \A S \in MatchingSubsets(schematic) : Cardinality(S) >= n

AllZero(v) == \A r \in 1..Len(v) : v[r] = 0

\* the call under study has returned
StrategyReturned == strategy_calls = 1

\* C1: for a schematic some subset of buttons reproduces, brute_force_solver
\* returns the least number of buttons over all subsets whose wiring columns
\* XOR to the lights vector.
C1_MinimumOverSubsets ==
    (StrategyReturned /\ Solvable(strategy_arg))
        => strategy_ret = Returned(MinSubsetSize(strategy_arg))

\* two buttons are needed although pressing all three also reproduces the target
C1_Witness ==
    /\ StrategyReturned
    /\ strategy_arg.n_buttons = 3
    /\ strategy_ret = Returned(2)
    /\ Reproduces(strategy_arg, {1, 2, 3})

\* C8: the strategy returns the sentinel -1 exactly when no subset of the
\* buttons reproduces the target.
C8_SentinelIffUnsolvable ==
    StrategyReturned => (strategy_ret = Returned(-1) <=> ~Solvable(strategy_arg))

\* one button wired to light 0 only, target [1,1]
C8_Witness ==
    /\ StrategyReturned
    /\ strategy_arg.lights = <<1, 1>>
    /\ strategy_arg.n_buttons = 1
    /\ strategy_arg.button_wiring = <<(<<1>>), (<<0>>)>>
    /\ strategy_ret = Returned(-1)

\* C10: whenever the lights vector is all zero the strategy returns 0,
\* whatever the wiring and the number of buttons.
C10_AllZeroNeedsNoPress ==
    (StrategyReturned /\ AllZero(strategy_arg.lights))
        => strategy_ret = Returned(0)

\* two lights already off and no button at all
C10_Witness ==
    /\ StrategyReturned
    /\ Len(strategy_arg.lights) = 2
    /\ AllZero(strategy_arg.lights)
    /\ strategy_arg.n_buttons = 0
    /\ strategy_ret = Returned(0)

(***************************************************************************)
(* The session's claims.                                                   *)
(***************************************************************************)
SolveStep == nsolves' = nsolves + 1

\* C2: when the fingerprint of the schematic is already in the cache, solve
\* returns the cached value, whatever it is, and the strategy is not invoked.
C2_HitReturnsCachedWithoutStrategy ==
    [][(SolveStep /\ schematic_hash(last'.arg) \in DOMAIN results)
         => /\ last'.ret = Returned(results[schematic_hash(last'.arg)])
            /\ last'.hit
            /\ strategy_calls' = strategy_calls]_vars

\* a seeded 7 came back for a schematic the strategy would not answer 7 for
C2_Witness ==
    /\ last.op = "solve"
    /\ last.hit
    /\ last.ret = Returned(SeedCount)
    /\ strategy_calls = 0
    /\ brute_force_solver(last.arg) # SeedCount

\* C3: on a miss solve invokes the strategy exactly once, returns its result
\* and leaves the cache mapping the schematic's fingerprint to that value.
C3_MissComputesOnceAndStores ==
    [][(SolveStep /\ schematic_hash(last'.arg) \notin DOMAIN results)
         => /\ strategy_calls' = strategy_calls + 1
            /\ ~last'.hit
            /\ last'.ret = Returned(brute_force_solver(last'.arg))
            /\ schematic_hash(last'.arg) \in DOMAIN results'
            /\ Returned(results'[schematic_hash(last'.arg)]) = last'.ret]_vars

\* a miss in a loaded session whose cache already held another entry
C3_Witness ==
    /\ last.op = "solve"
    /\ ~last.hit
    /\ pos = "loaded"
    /\ Cardinality(DOMAIN results) >= 2
    /\ Returned(results[schematic_hash(last.arg)]) = last.ret

\* C4: between two enters, every further solve of the same content returns
\* what the first one returned and is a cache hit; the strategy runs at most
\* once for that content.
C4_SecondSolveIsHitWithSameValue ==
    /\ \A s \in DOMAIN session_log : session_log[s].runs <= 1
    /\ (last.op = "solve" /\ session_log[last.arg].count >= 2)
          => (last.ret = Returned(session_log[last.arg].first) /\ last.hit)

\* the first solve was a miss that ran the strategy, the second a hit
C4_Witness ==
    /\ last.op = "solve"
    /\ pos = "loaded"
    /\ session_log[last.arg].count = 2
    /\ session_log[last.arg].runs = 1
    /\ last.hit

\* the mapping a reader of the file gets
FileHolds(file, res) ==
    /\ file.kind = "json"
    /\ DOMAIN file.members = DOMAIN res
    /\ \A k \in DOMAIN res : StrToInt(file.members[k]) = res[k]

\* C5: after a normal exit the backing store holds the whole in-memory
\* mapping; after an exit caused by an exception it is exactly as it was when
\* the session was entered.
C5_FlushOnNormalExitOnly ==
    last.op = "__exit__"
        => IF last.exc THEN save_file = file_at_enter
                       ELSE FileHolds(save_file, results)

\* an exception ended a session that had computed an entry the file lacks
C5_Witness ==
    /\ last.op = "__exit__"
    /\ last.exc
    /\ strategy_calls >= 1
    /\ save_file.kind = "json"
    /\ DOMAIN results # DOMAIN save_file.members

\* C6: entering with no backing file does not raise and starts from the empty
\* mapping; with a file the mapping is the one the file holds.
C6_EnterLoadsOrStartsEmpty ==
    last.op = "__enter__"
        => /\ save_file.kind = "absent"
                => (~last.raised /\ pos = "loaded" /\ results = EmptyDict)
           /\ save_file.kind = "json"
                => /\ ~last.raised
                   /\ pos = "loaded"
                   /\ DOMAIN results = DOMAIN save_file.members
                   /\ \A k \in DOMAIN results :
                         IntToStr(results[k]) = save_file.members[k]

\* the file is missing and a mapping filled before the enter was reset
C6_Witness ==
    /\ last.op = "__enter__"
    /\ save_file.kind = "absent"
    /\ strategy_calls >= 1
    /\ results = EmptyDict

\* C7: a load that follows a flush on the same path gives back the mapping
\* that was flushed.
C7_FlushThenLoadRoundTrip ==
    [][(last.op = "__exit__" /\ ~last.exc /\ last'.op = "__enter__")
         => (~last'.raised /\ results' = results)]_vars

\* reloaded in a second session: a computed -1 next to a two-digit count
C7_Witness ==
    /\ last.op = "__enter__"
    /\ ~last.raised
    /\ nsessions = 2
    /\ \E k \in DOMAIN results : results[k] = -1
    /\ \E k \in DOMAIN results : results[k] = SeedManyPresses

\* C9: for a schematic no subset reproduces, solve in a loaded session signals
\* a failure; it neither returns -1 or 0 nor stores such a value in the cache.
C9_UnsatisfiableIsSignalled ==
    (last.op = "solve" /\ pos = "loaded" /\ ~Solvable(last.arg))
        => /\ last.raised
           /\ last.ret \notin {Returned(-1), Returned(0)}
           /\ schematic_hash(last.arg) \in DOMAIN results
                => results[schematic_hash(last.arg)] \notin {-1, 0}

(***************************************************************************)
(* Cross-validation: both solvers are run on the same schematic.           *)
(***************************************************************************)
CrossValidate ==
    /\ gf2_ret = None
    /\ strategy_ret' = Returned(brute_force_solver(strategy_arg))
    /\ gf2_ret' = Returned(GF2LinearSolver_solve(strategy_arg.button_wiring,
                                                 strategy_arg.n_buttons,
                                                 strategy_arg.lights))
    /\ strategy_calls' = strategy_calls + 1
    /\ UNCHANGED <<save_file, results, pos, last, session_log, file_at_enter,
                   nsolves, nsessions, strategy_arg, fingerprint>>
    /\ UNCHANGED <<overlap_vars, day1_vars, day5_vars, day8_vars, day7_vars,
                   day3_vars, day9_vars, day4_vars>>

CrossNext == CrossValidate

CrossSpec == SolverInit /\ [][CrossNext]_vars

CrossValidated == gf2_ret # None

GF2Out == gf2_ret[1]

\* every button column received a pivot: no free variable is left
NoFreeVariable(schematic, out) ==
    \A c \in 1..schematic.n_buttons :
        c <= Len(schematic.lights) /\ out.reduced_matrix[c][c] = 1

\* C11 as stated: for every schematic that has a solution, the elimination
\* solver and the exhaustive solver report the same min_presses.
C11_SolversAgreeWhenSolvable ==
    (CrossValidated /\ Solvable(strategy_arg))
        => /\ ~GF2Out.InconsistentSystem
           /\ Returned(GF2Out.min_presses) = strategy_ret

\* C11 as amended: for every schematic that has a solution and in which
\* every button column received a pivot, the two solvers report the same
\* min_presses.
C11_SolversAgreeWithoutFreeVariable ==
    (CrossValidated /\ Solvable(strategy_arg)
        /\ NoFreeVariable(strategy_arg, GF2Out))
        => /\ ~GF2Out.InconsistentSystem
           /\ Returned(GF2Out.min_presses) = strategy_ret

\* a full-rank system of two lights and two overlapping buttons, both pressed
C11_Witness ==
    /\ CrossValidated
    /\ Solvable(strategy_arg)
    /\ strategy_arg.n_buttons = 2
    /\ Len(strategy_arg.lights) = 2
    /\ NoFreeVariable(strategy_arg, GF2Out)
    /\ strategy_ret = Returned(2)
    /\ GF2Out.min_presses = 2

Example2 == <<(<<1, 1>>), (<<1, 1>>)>>

\* C12: two lights, two buttons that both toggle both lights, target [1,1]:
\* both solvers report 1.
C12_IdenticalButtonsNeedOnePress ==
    (CrossValidated
        /\ strategy_arg.n_buttons = 2
        /\ strategy_arg.button_wiring = Example2
        /\ strategy_arg.lights = <<1, 1>>)
        => /\ strategy_ret = Returned(1)
           /\ ~GF2Out.InconsistentSystem
           /\ GF2Out.min_presses = 1

\* Example 2 has been put through both solvers
C12_Witness ==
    /\ CrossValidated
    /\ strategy_arg.n_buttons = 2
    /\ strategy_arg.button_wiring = Example2
    /\ strategy_arg.lights = <<1, 1>>
    /\ strategy_ret = Returned(1)
    /\ GF2Out.min_presses = 1

\* C16 as stated: InconsistentSystem is signalled exactly for the systems
\* no press vector satisfies.
C16_InconsistentIffUnsatisfiable ==
    CrossValidated
        => (GF2Out.InconsistentSystem <=> ~Solvable(strategy_arg))

\* C16 as amended: InconsistentSystem is never signalled for a solvable
\* system, and it is signalled for every unsatisfiable system in which every
\* button column received a pivot.
C16_InconsistentOnlyIfUnsatisfiable ==
    CrossValidated
        => /\ GF2Out.InconsistentSystem => ~Solvable(strategy_arg)
           /\ (~Solvable(strategy_arg) /\ NoFreeVariable(strategy_arg, GF2Out))
                 => GF2Out.InconsistentSystem

\* Example 3: one button wired to light 0 only, target [1,1]
C16_Witness ==
    /\ CrossValidated
    /\ strategy_arg.lights = <<1, 1>>
    /\ strategy_arg.n_buttons = 1
    /\ strategy_arg.button_wiring = <<(<<1>>), (<<0>>)>>
    /\ GF2Out.InconsistentSystem

\* ---- the cache key of one schematic ----

Fingerprint ==
    /\ fingerprint = None
    /\ fingerprint' = Returned(schematic_hash(strategy_arg))
    /\ UNCHANGED <<save_file, results, pos, last, session_log, file_at_enter,
                   strategy_calls, nsolves, nsessions, strategy_arg,
                   strategy_ret, gf2_ret>>
    /\ UNCHANGED <<overlap_vars, day1_vars, day5_vars, day8_vars, day7_vars,
                   day3_vars, day9_vars, day4_vars>>

FingerprintNext == Fingerprint

FingerprintSpec == SolverInit /\ [][FingerprintNext]_vars

Fingerprinted == fingerprint # None

Flip(bit) == 1 - bit

FlipLight(schematic, r) ==
    [schematic EXCEPT !.lights[r] = Flip(@)]

FlipWire(schematic, r, b) ==
    [schematic EXCEPT !.button_wiring[r][b] = Flip(@)]

\* C13: the fingerprint is a function of the content: a schematic built
\* again from the same lights, wiring and joltage has the same fingerprint,
\* and flipping any single bit of lights or of wiring gives another one.
C13_FingerprintFollowsContent ==
    Fingerprinted
        => /\ fingerprint = Returned(schematic_hash(
                  Schematic(strategy_arg.lights, strategy_arg.n_buttons,
                            strategy_arg.button_wiring,
                            strategy_arg.joltage_requirements)))
           /\ \A r \in 1..Len(strategy_arg.lights) :
                  /\ fingerprint
                        # Returned(schematic_hash(FlipLight(strategy_arg, r)))
                  /\ \A b \in 1..strategy_arg.n_buttons :
                        fingerprint
                          # Returned(schematic_hash(FlipWire(strategy_arg, r, b)))

\* a fingerprint was taken of a schematic that has light and wiring bits
C13_Witness ==
    /\ Fingerprinted
    /\ Len(strategy_arg.lights) = 2
    /\ strategy_arg.n_buttons = 2
    /\ fingerprint = Returned(schematic_hash(strategy_arg))
    /\ fingerprint # Returned(schematic_hash(FlipLight(strategy_arg, 1)))

WithJoltage(schematic, joltage_requirements) ==
    [schematic EXCEPT !.joltage_requirements = joltage_requirements]

Positions == {"init", "loaded", "closed"}

C15_UnparsableStoreFallsBackToEmpty ==
    (last.op = "__enter__" /\ save_file.kind = "corrupt")
        => /\ ~last.raised
           /\ results = EmptyDict
           /\ pos = "loaded"

\* C18: solving never changes the schematic: after a call of solve, and
\* after a call of the strategy on the same object, lights, wiring and
\* joltage are what they were before the call.
C18_SolvingLeavesSchematicAlone ==
    last.op = "solve"
        => /\ last.after = last.arg
           /\ brute_force_solver_leaves(last.arg) = last.arg

\* a miss ran the strategy on a schematic whose buttons toggle lights
C18_Witness ==
    /\ last.op = "solve"
    /\ ~last.hit
    /\ last.arg.n_buttons = 2
    /\ last.ret = Returned(1)
    /\ last.after = last.arg

\* C19: the flush is atomic: after an exit, interrupted or not, the backing
\* store holds the complete mapping it held when the session was entered or
\* the complete in-memory mapping, never a truncated or partial one.
C19_StoreIsPreviousOrNewMapping ==
    last.op = "__exit__"
        => /\ save_file.kind # "corrupt"
           /\ \/ save_file = file_at_enter
              \/ FileHolds(save_file, results)

StartedEmpty ==
    /\ pos \in {"loaded", "closed"}
    /\ \/ file_at_enter.kind = "absent"
       \/ file_at_enter.kind = "json" /\ json_load(file_at_enter) = EmptyDict

\* C20: in a session started from an empty or missing cache file, every
\* entry of the in-memory cache maps the fingerprint of a schematic solved
\* in the session to the value brute_force_solver computes for it, and a
\* value solve returns is that value.
C20_CacheAgreesWithStrategy ==
    StartedEmpty
        => /\ \A key \in DOMAIN results :
                  \E schematic \in DOMAIN session_log :
                      /\ key = schematic_hash(schematic)
                      /\ results[key] = brute_force_solver(schematic)
           /\ last.op = "solve"
                 => last.ret = Returned(brute_force_solver(last.arg))

\* two different schematics were solved in a session started from a missing
\* file, the second one after the first was cached
C20_Witness ==
    /\ StartedEmpty
    /\ file_at_enter.kind = "absent"
    /\ Cardinality(DOMAIN results) = 2
    /\ Cardinality(DOMAIN session_log) = 2
    /\ last.op = "solve"
    /\ last.ret = Returned(brute_force_solver(last.arg))

ExitStep == pos = "loaded" /\ pos' = "closed"

\* C21: solve never removes an entry of the cache and never changes the
\* value of one: a hit leaves the mapping as it is and a miss adds exactly
\* one entry; the file written by a clean exit holds every entry the file
\* held when the session was entered.
C21_CacheOnlyGrows ==
    [][/\ SolveStep
            => /\ \A key \in DOMAIN results :
                      key \in DOMAIN results' /\ results'[key] = results[key]
               /\ last'.hit => results' = results
               /\ ~last'.hit
                     => /\ schematic_hash(last'.arg) \notin DOMAIN results
                        /\ DOMAIN results'
                             = DOMAIN results \cup {schematic_hash(last'.arg)}
       /\ (ExitStep /\ ~last'.exc)
            => \A key \in DOMAIN file_at_enter.members :
                  /\ key \in DOMAIN save_file'.members
                  /\ save_file'.members[key] = file_at_enter.members[key]]_vars

\* a session entered on a file of one entry computed another one and its
\* clean exit wrote both
C21_Witness ==
    /\ last.op = "__exit__"
    /\ ~last.exc
    /\ Cardinality(DOMAIN file_at_enter.members) = 1
    /\ Cardinality(DOMAIN save_file.members) = 2
    /\ \A key \in DOMAIN file_at_enter.members :
          key \in DOMAIN save_file.members

\* the two with blocks overlapped: both sessions were Loaded at once
Overlapped ==
    \/ other_seen.at_enter = "loaded"
    \/ other_seen.at_enter = "init" /\ other_seen.at_exit \in {"loaded", "closed"}

BothExitedNormally ==
    /\ pos = "closed" /\ last.op = "__exit__" /\ ~last.exc
    /\ other_pos = "closed" /\ other_seen.at_exit # "none" /\ ~other_seen.exc

LastWriterOnly(written, lost) ==
    /\ FileHolds(save_file, written)
    /\ \A key \in DOMAIN lost \ DOMAIN written :
          key \notin DOMAIN save_file.members

\* C22: when two sessions on one save file overlap and both exit normally,
\* the file holds exactly the mapping of the session that exited last, and
\* an entry only the session that exited first holds is not in the file.
C22_LastExitWins ==
    (Overlapped /\ BothExitedNormally)
        => IF other_seen.at_exit = "closed"
           THEN LastWriterOnly(other_results, results)
           ELSE LastWriterOnly(results, other_results)

\* both overlapped sessions exited normally and the one that exited first
\* had computed an entry the other one lacks
C22_Witness ==
    /\ Overlapped
    /\ BothExitedNormally
    /\ other_seen.at_exit = "closed"
    /\ \E key \in DOMAIN results : key \notin DOMAIN other_results
    /\ FileHolds(save_file, other_results)

\* the press vectors x, as sets of pressed buttons, with matrix.x = target
SolutionsOf(sys, n_buttons) ==
    {x \in SUBSET (1..n_buttons) :
        \A r \in 1..Len(sys.target) :
            Cardinality({b \in x : sys.matrix[r][b] = 1}) % 2 = sys.target[r]}

\* C23: the elimination preserves the equation system: the press vectors
\* that satisfy the reduced matrix and target are those that satisfy the
\* wiring and the lights, and so it is after the steps of any one column.
C23_EliminationKeepsSolutions ==
    CrossValidated
        => LET n_buttons == strategy_arg.n_buttons
               sys == System(strategy_arg.button_wiring, strategy_arg.lights)
               solutions == SolutionsOf(sys, n_buttons)
           IN  /\ SolutionsOf(System(GF2Out.reduced_matrix,
                                     GF2Out.reduced_target), n_buttons)
                    = solutions
               /\ \A c \in 1..n_buttons :
                     SolutionsOf(ColumnStep(sys, c), n_buttons) = solutions

\* an elimination that swapped rows and replaced a row, on a system that
\* has a solution
C23_Witness ==
    /\ CrossValidated
    /\ strategy_arg.n_buttons = 2
    /\ strategy_arg.button_wiring = <<(<<0, 1>>), (<<1, 1>>)>>
    /\ strategy_arg.lights = <<1, 0>>
    /\ GF2Out.reduced_matrix = <<(<<1, 0>>), (<<0, 1>>)>>
    /\ GF2Out.reduced_target = <<1, 1>>

(***************************************************************************)
(* src/day1/main.py: the dial.                                             *)
(***************************************************************************)
MaxClicks == 120

MaxTurns == 2

DialSize == 100

StartRotation == 50

Direction == {"R", "L"}

Abs(n) == IF n < 0 THEN -n ELSE n

\* turn_dial_by_step: the new position and the updated counters
turn_dial_by_step(step, rotations, rotation) ==
    LET direction == step[1]
        clicks == step[2]
    IN  IF direction = "R"
        THEN [current_rotation |-> (rotation + (clicks % DialSize)) % DialSize,
              total_rotations |->
                  [rotations EXCEPT !["R"] = @ + ((clicks + rotation) \div DialSize)]]
        ELSE LET wrapped == IF rotation = 0 THEN DialSize ELSE rotation
                 crossed == Abs((wrapped - clicks) \div DialSize)
                 landed == (wrapped - (clicks % DialSize)) % DialSize
             IN  [current_rotation |-> landed,
                  total_rotations |->
                      [rotations EXCEPT !["L"] =
                          @ + crossed + (IF landed = 0 THEN 1 ELSE 0)]]

NoTurn == [n |-> 0, step |-> <<"R", 0>>, from |-> StartRotation,
           before |-> [d \in Direction |-> 0]]

\* the solver of day 10 left alone
Day10Idle ==
    /\ OverlapIdle
    /\ save_file = AbsentFile
    /\ results = EmptyDict
    /\ pos = "init"
    /\ last = Observed("__init__", NoSchematic, None, FALSE, FALSE, FALSE,
                       NoSchematic)
    /\ session_log = <<>>
    /\ file_at_enter = AbsentFile
    /\ strategy_calls = 0
    /\ nsolves = 0
    /\ nsessions = 0
    /\ strategy_arg = NoSchematic
    /\ strategy_ret = None
    /\ gf2_ret = None
    /\ fingerprint = None

Day1Init ==
    /\ current_rotation = StartRotation
    /\ total_rotations = [d \in Direction |-> 0]
    /\ turn = NoTurn
    /\ Day5Idle /\ Day8Idle /\ Day7Idle /\ Day3Idle /\ Day9Idle /\ Day4Idle
    /\ Day10Idle

\* one pass of the loop of main over the sequence
TurnDial(step) ==
    /\ turn.n < MaxTurns
    /\ LET out == turn_dial_by_step(step, total_rotations, current_rotation)
       IN  /\ current_rotation' = out.current_rotation
           /\ total_rotations' = out.total_rotations
    /\ turn' = [n |-> turn.n + 1, step |-> step, from |-> current_rotation,
                before |-> total_rotations]
    /\ UNCHANGED <<day10_vars, overlap_vars, day5_vars, day8_vars, day7_vars,
                   day3_vars, day9_vars, day4_vars>>

Day1Next == \E direction \in Direction : \E clicks \in 0..MaxClicks :
                TurnDial(<<direction, clicks>>)

Day1Spec == Day1Init /\ [][Day1Next]_vars

\* the clicks of a turn after which the dial points at 0
ClicksAtZero(from, step) ==
    {j \in 1..step[2] :
        (IF step[1] = "R" THEN from + j ELSE from - j) % DialSize = 0}

\* C24: a turn adds to the counter of its direction the number of its clicks
\* after which the dial points at 0, leaves the other counter alone and
\* returns the position (current +- clicks) mod 100.
C24_CountsClicksAtZero ==
    turn.n > 0
        => /\ \A direction \in Direction :
                  total_rotations[direction]
                    = turn.before[direction]
                        + (IF direction = turn.step[1]
                           THEN Cardinality(ClicksAtZero(turn.from, turn.step))
                           ELSE 0)
           /\ current_rotation
                = (IF turn.step[1] = "R" THEN turn.from + turn.step[2]
                   ELSE turn.from - turn.step[2]) % DialSize

(***************************************************************************)
(* src/day5/main.py: merge_ranges.                                         *)
(***************************************************************************)
MaxRanges == 3

MaxId == 3

Max(a, b) == IF a > b THEN a ELSE b

\* sorted(..., key=lambda x: x[0]) is stable: a range goes behind the ranges
\* already placed whose start is not greater
RECURSIVE InsertByStart(_, _)
InsertByStart(sorted, range) ==
    IF sorted = <<>> THEN <<range>>
    ELSE IF Head(sorted)[1] <= range[1]
         THEN <<Head(sorted)>> \o InsertByStart(Tail(sorted), range)
         ELSE <<range>> \o sorted

RECURSIVE SortedByStart(_)
SortedByStart(seq) ==
    IF seq = <<>> THEN <<>>
    ELSE InsertByStart(SortedByStart(SubSeq(seq, 1, Len(seq) - 1)),
                       seq[Len(seq)])

\* the end of the merged range is the end of the range merged in
MergeStep_takes_current_end(merged, current) ==
    LET last_range == merged[Len(merged)]
    IN  IF current[1] <= last_range[2] + 1
        THEN [merged EXCEPT ![Len(merged)] = <<last_range[1], current[2]>>]
        ELSE Append(merged, current)

\* one pass of: for current_start, current_end in sorted_ranges[1:]
MergeStep(merged, current) ==
    LET last_range == merged[Len(merged)]
    IN  IF current[1] <= last_range[2] + 1
        THEN [merged EXCEPT ![Len(merged)] =
                 <<last_range[1], Max(last_range[2], current[2])>>]
        ELSE Append(merged, current)

RECURSIVE MergeFrom(_, _, _)
MergeFrom(merged, sorted_ranges, k) ==
    IF k > Len(sorted_ranges) THEN merged
    ELSE MergeFrom(MergeStep(merged, sorted_ranges[k]), sorted_ranges, k + 1)

merge_ranges(rs) ==
    IF rs = <<>> THEN <<>>
    ELSE LET sorted_ranges == SortedByStart(rs)
         IN  MergeFrom(<<sorted_ranges[1]>>, sorted_ranges, 2)

RECURSIVE determine_number_of_fresh_ids_from_ranges(_)
determine_number_of_fresh_ids_from_ranges(rs) ==
    IF rs = <<>> THEN 0
    ELSE (Head(rs)[2] - Head(rs)[1] + 1)
           + determine_number_of_fresh_ids_from_ranges(Tail(rs))

\* the ranges a file can hold: start <= end
RangeSet == {<<start, end>> \in (0..MaxId) \X (0..MaxId) : start <= end}

Day5Init ==
    /\ \E n \in 0..MaxRanges : ranges \in [1..n -> RangeSet]
    /\ merged_ranges = None
    /\ Day1Idle /\ Day8Idle /\ Day7Idle /\ Day3Idle /\ Day9Idle /\ Day4Idle
    /\ Day10Idle

\* merged_ranges = merge_ranges(ranges)
MergeRanges ==
    /\ merged_ranges = None
    /\ merged_ranges' = Returned(merge_ranges(ranges))
    /\ UNCHANGED <<ranges, day10_vars, overlap_vars, day1_vars, day8_vars,
                   day7_vars, day3_vars, day9_vars, day4_vars>>

Day5Next == MergeRanges

Day5Spec == Day5Init /\ [][Day5Next]_vars

\* the integers a list of ranges covers
Covered(rs) ==
    {id \in 0..MaxId : \E k \in 1..Len(rs) : rs[k][1] <= id /\ id <= rs[k][2]}

\* C25: the merged ranges are sorted by start, pairwise neither overlapping
\* nor contiguous, and cover the integers the input ranges cover; the count
\* taken from them is the number of those integers.
C25_MergedRangesPartitionCover ==
    merged_ranges # None
        => LET merged == merged_ranges[1]
           IN  /\ \A k \in 1..Len(merged) : merged[k][1] <= merged[k][2]
               /\ \A k \in 2..Len(merged) :
                     merged[k][1] > merged[k - 1][2] + 1
               /\ Covered(merged) = Covered(ranges)
               /\ determine_number_of_fresh_ids_from_ranges(merged)
                    = Cardinality(Covered(ranges))

\* unsorted input with a range inside another and a contiguous one
C25_Witness ==
    /\ merged_ranges # None
    /\ ranges = <<(<<2, 3>>), (<<0, 3>>), (<<0, 1>>)>>
    /\ merged_ranges[1] = <<(<<0, 3>>)>>

(***************************************************************************)
(* src/day8/main.py: create_circuits.  Indices of junction boxes start at  *)
(* 0 as in the code; junction_boxes[i + 1] is the box of index i.          *)
(***************************************************************************)
MaxBoxes == 4

MaxCoord == 3

MaxIterations == 3

JunctionBox(x, y, z) == [x |-> x, y |-> y, z |-> z]

\* the square of calculate_straight_line_distance: ** 0.5 keeps the order
SquaredDistance(box1, box2) ==
    (box1.x - box2.x) * (box1.x - box2.x)
      + (box1.y - box2.y) * (box1.y - box2.y)
      + (box1.z - box2.z) * (box1.z - box2.z)

\* the keys of distances in the order of the two loops: (0,1), (0,2), ...
RECURSIVE PairsFrom(_, _, _)
PairsFrom(n, i, j) ==
    IF i >= n - 1 THEN <<>>
    ELSE IF j >= n THEN PairsFrom(n, i + 1, i + 2)
    ELSE <<(<<i, j>>)>> \o PairsFrom(n, i, j + 1)

\* sorted(distances.items(), key=lambda item: item[1]) is stable
RECURSIVE InsertByDistance(_, _, _)
InsertByDistance(boxes, sorted, pair) ==
    IF sorted = <<>> THEN <<pair>>
    ELSE IF SquaredDistance(boxes[Head(sorted)[1] + 1], boxes[Head(sorted)[2] + 1])
              <= SquaredDistance(boxes[pair[1] + 1], boxes[pair[2] + 1])
         THEN <<Head(sorted)>> \o InsertByDistance(boxes, Tail(sorted), pair)
         ELSE <<pair>> \o sorted

RECURSIVE SortedByDistance(_, _)
SortedByDistance(boxes, pairs) ==
    IF pairs = <<>> THEN <<>>
    ELSE InsertByDistance(boxes,
                          SortedByDistance(boxes, SubSeq(pairs, 1, Len(pairs) - 1)),
                          pairs[Len(pairs)])

calcate_distances_between_junction_boxes(boxes) ==
    SortedByDistance(boxes, PairsFrom(Len(boxes), 0, 1))

\* next(c for c in circuits if i in c), as a position in the list
CircuitOf(cs, i) ==
    CHOOSE k \in 1..Len(cs) :
        /\ i \in cs[k]
        /\ \A before \in 1..(k - 1) : i \notin cs[before]

RemoveAt(seq, k) == SubSeq(seq, 1, k - 1) \o SubSeq(seq, k + 1, Len(seq))

\* circuit_j stays in the list after the update
MergeCircuits_keeps_circuit_j(cs, i, j) ==
    LET circuit_i == CircuitOf(cs, i)
        circuit_j == CircuitOf(cs, j)
    IN  IF cs[circuit_i] # cs[circuit_j]
        THEN [cs EXCEPT ![circuit_i] = cs[circuit_i] \cup cs[circuit_j]]
        ELSE cs

\* circuit_i.update(circuit_j); circuits.remove(circuit_j)
MergeCircuits(cs, i, j) ==
    LET circuit_i == CircuitOf(cs, i)
        circuit_j == CircuitOf(cs, j)
    IN  IF cs[circuit_i] # cs[circuit_j]
        THEN RemoveAt([cs EXCEPT ![circuit_i] = cs[circuit_i] \cup cs[circuit_j]],
                      circuit_j)
        ELSE cs

\* circuits.sort(key=lambda c: len(c), reverse=True) is stable
RECURSIVE InsertBySize(_, _)
InsertBySize(sorted, circuit) ==
    IF sorted = <<>> THEN <<circuit>>
    ELSE IF Cardinality(Head(sorted)) >= Cardinality(circuit)
         THEN <<Head(sorted)>> \o InsertBySize(Tail(sorted), circuit)
         ELSE <<circuit>> \o sorted

RECURSIVE SortedBySize(_)
SortedBySize(cs) ==
    IF cs = <<>> THEN <<>>
    ELSE InsertBySize(SortedBySize(SubSeq(cs, 1, Len(cs) - 1)), cs[Len(cs)])

\* the call create_circuits(junction_boxes, sorted_distances, max_iterations)
\* up to the loop
Day8Init ==
    /\ \E n \in 0..MaxBoxes :
         \E xs \in [1..n -> 0..MaxCoord] :
            junction_boxes = [k \in 1..n |-> JunctionBox(xs[k], 0, 0)]
    /\ sorted_distances = calcate_distances_between_junction_boxes(junction_boxes)
    /\ max_iterations \in 0..MaxIterations
    /\ circuits = [k \in 1..Len(junction_boxes) |-> {k - 1}]
    /\ iteration = 0
    /\ connected = {}
    /\ circuits_pc = "loop"
    /\ Day1Idle /\ Day5Idle /\ Day7Idle /\ Day3Idle /\ Day9Idle /\ Day4Idle
    /\ Day10Idle

\* one pass of the loop over sorted_distances
Connect ==
    /\ circuits_pc = "loop"
    /\ iteration < Len(sorted_distances)
    /\ LET pair == sorted_distances[iteration + 1]
           merged == MergeCircuits(circuits, pair[1], pair[2])
       IN  /\ iteration' = iteration + 1
           /\ circuits' = merged
           /\ connected' = connected \cup {pair}
           /\ circuits_pc' = IF iteration + 1 >= max_iterations \/ Len(merged) = 1
                                THEN "break"
                                ELSE "loop"
    /\ UNCHANGED <<junction_boxes, sorted_distances, max_iterations,
                   day10_vars, overlap_vars, day1_vars, day5_vars, day7_vars,
                   day3_vars, day9_vars, day4_vars>>

\* the loop left by break or by exhaustion: sort and return
ReturnCircuits ==
    /\ \/ circuits_pc = "break"
       \/ circuits_pc = "loop" /\ iteration = Len(sorted_distances)
    /\ circuits' = SortedBySize(circuits)
    /\ circuits_pc' = "returned"
    /\ UNCHANGED <<junction_boxes, sorted_distances, max_iterations, iteration,
                   connected, day10_vars, overlap_vars, day1_vars, day5_vars,
                   day7_vars, day3_vars, day9_vars, day4_vars>>

Day8Next == Connect \/ ReturnCircuits

Day8Spec == Day8Init /\ [][Day8Next]_vars

BoxIndices == 0..(Len(junction_boxes) - 1)

\* the indices joined to i by at most k of the pairs processed so far
RECURSIVE Joined(_, _)
Joined(i, k) ==
    IF k = 0 THEN {i}
    ELSE LET near == Joined(i, k - 1)
         IN  near \cup {b \in BoxIndices :
                          \E a \in near : <<a, b>> \in connected
                                            \/ <<b, a>> \in connected}

Components == {Joined(i, Len(junction_boxes)) : i \in BoxIndices}

\* C26: after every pass of the loop the circuits are a partition of the
\* indices without an empty circuit, and the returned circuits are the
\* connected components of the pairs processed, largest first.
C26_CircuitsAreComponents ==
    circuits_pc # "idle"
        => /\ \A i \in BoxIndices :
                 Cardinality({k \in 1..Len(circuits) : i \in circuits[k]}) = 1
           /\ \A k \in 1..Len(circuits) :
                 circuits[k] # {} /\ circuits[k] \subseteq BoxIndices
           /\ circuits_pc = "returned"
                 => /\ {circuits[k] : k \in 1..Len(circuits)} = Components
                    /\ \A k \in 2..Len(circuits) :
                          Cardinality(circuits[k - 1]) >= Cardinality(circuits[k])

\* three boxes at one place and one apart: the third pair joins nothing
C26_Witness ==
    /\ circuits_pc = "returned"
    /\ iteration = 3
    /\ connected = {<<0, 2>>, <<0, 3>>, <<2, 3>>}
    /\ circuits = <<{0, 2, 3}, {1}>>

(***************************************************************************)
(* src/day7/main.py: propagate_quantum_beams.  Positions start at 0 as in  *)
(* the code; manifold_line[i + 1] is the character at position i.  The     *)
(* dict path_count_per_position is a function on its keys.                 *)
(***************************************************************************)
MaxWidth == 3

MaxPaths == 2

ManifoldChar == {".", "^"}

\* path_count_per_position.get(i, 0)
Get(dict, key) == IF key \in DOMAIN dict THEN dict[key] ELSE 0

\* the body of the loop at position i, on the dict as it stands
SplitAt(line, counts, i) ==
    IF Get(counts, i) = 0 THEN counts
    ELSE IF line[i + 1] = "^"
         THEN LET n_paths == counts[i]
                  left == Put(counts, i - 1, Get(counts, i - 1) + n_paths)
                  right == Put(left, i + 1, Get(left, i + 1) + n_paths)
              IN  Put(right, i, 0)
         ELSE counts

\* for i, char in enumerate(manifold_line), from position i on
RECURSIVE ScanFrom(_, _, _)
ScanFrom(line, counts, i) ==
    IF i >= Len(line) THEN counts
    ELSE ScanFrom(line, SplitAt(line, counts, i), i + 1)

propagate_quantum_beams(line, counts) == ScanFrom(line, counts, 0)

Day7Init ==
    /\ \E n \in 1..MaxWidth :
         /\ manifold_line \in [1..n -> ManifoldChar]
         /\ \E keys \in SUBSET (0..(n - 1)) :
               path_count_per_position \in [keys -> 0..MaxPaths]
    /\ path_count_entered = None
    /\ Day1Idle /\ Day5Idle /\ Day8Idle /\ Day3Idle /\ Day9Idle /\ Day4Idle
    /\ Day10Idle

\* path_count_per_position = propagate_quantum_beams(line, path_count_per_position)
Propagate ==
    /\ path_count_entered = None
    /\ path_count_entered' = Returned(path_count_per_position)
    /\ path_count_per_position' =
          propagate_quantum_beams(manifold_line, path_count_per_position)
    /\ UNCHANGED <<manifold_line, day10_vars, overlap_vars, day1_vars,
                   day5_vars, day8_vars, day3_vars, day9_vars, day4_vars>>

Day7Next == Propagate

Day7Spec == Day7Init /\ [][Day7Next]_vars

\* sum(path_count_per_position.values()) over the keys from position i on
RECURSIVE TimelinesFrom(_, _, _)
TimelinesFrom(counts, i, last_position) ==
    IF i > last_position THEN 0
    ELSE Get(counts, i) + TimelinesFrom(counts, i + 1, last_position)

Timelines(counts) == TimelinesFrom(counts, -1, MaxWidth)

\* the splitters on which timelines stood when the line was entered
SplittersHit(line, entered) ==
    {i \in 0..(Len(line) - 1) : line[i + 1] = "^" /\ Get(entered, i) > 0}

\* what stood on position i, if position i is such a splitter
Moved(line, entered, i) ==
    IF i \in SplittersHit(line, entered) THEN Get(entered, i) ELSE 0

\* C27: after the call every such splitter holds 0 and has given its count
\* to both neighbours, every other count is as it was, and the number of
\* timelines has grown by the counts that stood on those splitters.
C27_SplittersMoveTimelines ==
    path_count_entered # None
        => LET entered == path_count_entered[1]
           IN  /\ \A i \in (-1)..Len(manifold_line) :
                     Get(path_count_per_position, i)
                       = (Get(entered, i) - Moved(manifold_line, entered, i))
                           + Moved(manifold_line, entered, i - 1)
                           + Moved(manifold_line, entered, i + 1)
               /\ Timelines(path_count_per_position)
                    = Timelines(entered)
                        + TimelinesFrom([i \in 0..(Len(manifold_line) - 1) |->
                                            Moved(manifold_line, entered, i)],
                                        0, Len(manifold_line) - 1)

(***************************************************************************)
(* src/day3/main.py: determine_maximum_joltage_second_part.  A string of   *)
(* digits is a sequence of digits; indices start at 0 as in the code.      *)
(***************************************************************************)
MaxBank == 999

MinValue == 1

MaxValue == 9

\* str(batteries), as digits
RECURSIVE str_batteries(_)
str_batteries(n) == IF n < 10 THEN <<n>> ELSE Append(str_batteries(n \div 10), n % 10)

\* int("".join(...)) of a sequence of digits
RECURSIVE ToInt(_)
ToInt(digits) ==
    IF digits = <<>> THEN 0
    ELSE 10 * ToInt(SubSeq(digits, 1, Len(digits) - 1)) + digits[Len(digits)]

\* batteries[start_index:end_index]
Slice(digits, start_index, end_index) ==
    SubSeq(digits, start_index + 1, Min(end_index, Len(digits)))

\* the loop of find_maximum_in_subsequence from position i on
RECURSIVE FindFrom(_, _, _, _, _, _)
FindFrom(subsequence, i, maximum, maximum_index, min_value, max_value) ==
    IF i >= Len(subsequence) THEN <<maximum, maximum_index>>
    ELSE LET value == subsequence[i + 1]
         IN  IF value = max_value THEN <<value, i>>
             ELSE IF min_value < value /\ value < max_value /\ value > maximum
                  THEN FindFrom(subsequence, i + 1, value, i, min_value, max_value)
                  ELSE FindFrom(subsequence, i + 1, maximum, maximum_index,
                                min_value, max_value)

find_maximum_in_subsequence(digits, start_index, end_index, min_value, max_value) ==
    FindFrom(Slice(digits, start_index, end_index), 0, 1, 0, min_value, max_value)

\* the loop of determine_maximum_joltage_second_part from pass i on
RECURSIVE SequenceFrom(_, _, _, _, _)
SequenceFrom(bank_digits, n, i, start_index, sequence) ==
    IF i >= n THEN sequence
    ELSE LET found == find_maximum_in_subsequence(
                          bank_digits, start_index,
                          (Len(bank_digits) + 1) - (n - i), MinValue, MaxValue)
         IN  SequenceFrom(bank_digits, n, i + 1, start_index + found[2] + 1,
                          [sequence EXCEPT ![i + 1] = found[1]])

determine_maximum_joltage_second_part(bank, n) ==
    ToInt(SequenceFrom(str_batteries(bank), n, 0, 0, [k \in 1..n |-> 1]))

Day3Init ==
    /\ batteries \in 1..MaxBank
    /\ length_sequence \in 1..Len(str_batteries(batteries))
    /\ max_joltage = None
    /\ Day1Idle /\ Day5Idle /\ Day8Idle /\ Day7Idle /\ Day9Idle /\ Day4Idle
    /\ Day10Idle

\* max_joltage = determine_maximum_joltage_second_part(battery_bank, n)
DetermineMaximumJoltage ==
    /\ max_joltage = None
    /\ max_joltage' =
          Returned(determine_maximum_joltage_second_part(batteries, length_sequence))
    /\ UNCHANGED <<batteries, length_sequence, day10_vars, overlap_vars,
                   day1_vars, day5_vars, day8_vars, day7_vars, day9_vars,
                   day4_vars>>

Day3Next == DetermineMaximumJoltage

Day3Spec == Day3Init /\ [][Day3Next]_vars

\* the digits of digits at the positions of chosen, in the order of digits
RECURSIVE Selected(_, _, _)
Selected(digits, chosen, k) ==
    IF k > Len(digits) THEN <<>>
    ELSE (IF k \in chosen THEN <<digits[k]>> ELSE <<>>)
           \o Selected(digits, chosen, k + 1)

\* the numbers written by n digits of the bank in their order
Selections(bank, n) ==
    {ToInt(Selected(str_batteries(bank), chosen, 1)) :
        chosen \in {c \in SUBSET (1..Len(str_batteries(bank))) : Cardinality(c) = n}}

\* C28: the returned joltage is the largest number that n digits of the
\* bank, taken in their order, write.
C28_LargestSelection ==
    max_joltage # None
        => /\ max_joltage[1] \in Selections(batteries, length_sequence)
           /\ \A other \in Selections(batteries, length_sequence) :
                 other <= max_joltage[1]

(***************************************************************************)
(* src/day9/main_part_two.py: flood_fill on the borders create_borders     *)
(* builds.  A cell is a pair <<x, y>>.                                     *)
(***************************************************************************)
MaxTries == 10

max_tries == 1000000

\* the directions without (-1, 0)
directions_without_left == <<(<<0, 1>>), (<<0, -1>>), (<<1, 0>>)>>

directions == <<(<<0, 1>>), (<<0, -1>>), (<<-1, 0>>), (<<1, 0>>)>>

span(c1, c2) ==
    LET x_min == Min(c1[1], c2[1])
        x_max == Max(c1[1], c2[1])
        y_min == Min(c1[2], c2[2])
        y_max == Max(c1[2], c2[2])
    IN  (x_min..x_max) \X (y_min..y_max)

create_borders(coordinates) ==
    LET complete == Append(coordinates, coordinates[1])
    IN  UNION {span(complete[k], complete[k + 1]) : k \in 1..Len(coordinates)}

\* the neighbours of <<x, y>> that the loop over directions[k..] appends
RECURSIVE AppendedFrom(_, _, _, _)
AppendedFrom(walls, x, y, k) ==
    IF k > Len(directions) THEN <<>>
    ELSE LET new == <<x + directions[k][1], y + directions[k][2]>>
         IN  (IF new \notin walls THEN <<new>> ELSE <<>>)
               \o AppendedFrom(walls, x, y, k + 1)

\* flood_fill(borders, internal_point) up to the loop, on the borders of a
\* rectangle given by its four corners
Day9Init ==
    /\ \E x1 \in 0..MaxCoord : \E x2 \in 0..MaxCoord :
         \E y1 \in 0..MaxCoord : \E y2 \in 0..MaxCoord :
            borders = create_borders(<<(<<x1, y1>>), (<<x2, y1>>),
                                       (<<x2, y2>>), (<<x1, y2>>)>>)
    /\ internal_point \in (0..MaxCoord) \X (0..MaxCoord)
    /\ visited = {}
    /\ queue = <<internal_point>>
    /\ tries = 0
    /\ flood_pc = "loop"
    /\ Day1Idle /\ Day5Idle /\ Day8Idle /\ Day7Idle /\ Day3Idle /\ Day4Idle
    /\ Day10Idle

\* one pass of: while queue and tries < max_tries
FloodStep ==
    /\ flood_pc = "loop"
    /\ queue # <<>>
    /\ tries < max_tries
    /\ tries < MaxTries
    /\ LET current == Head(queue)
       IN  IF current \in visited
           THEN /\ queue' = Tail(queue)
                /\ UNCHANGED <<visited, tries>>
           ELSE /\ visited' = visited \cup {current}
                /\ queue' = Tail(queue)
                              \o AppendedFrom(borders, current[1], current[2], 1)
                /\ tries' = tries + 1
    /\ UNCHANGED <<borders, internal_point, flood_pc, day10_vars, overlap_vars,
                   day1_vars, day5_vars, day8_vars, day7_vars, day3_vars,
                   day4_vars>>

\* the loop is left: return visited
FloodReturn ==
    /\ flood_pc = "loop"
    /\ queue = <<>> \/ tries >= max_tries
    /\ flood_pc' = "returned"
    /\ UNCHANGED <<borders, internal_point, visited, queue, tries, day10_vars,
                   overlap_vars, day1_vars, day5_vars, day8_vars, day7_vars,
                   day3_vars, day4_vars>>

Day9Next == FloodStep \/ FloodReturn

Day9Spec == Day9Init /\ [][Day9Next]_vars

\* the grid of the corners and one ring of cells around it; every cell of
\* the ring is outside the borders and joined to the rest of the plane
Window == ((-1)..(MaxCoord + 1)) \X ((-1)..(MaxCoord + 1))

Ring == Window \ ((0..MaxCoord) \X (0..MaxCoord))

Adjacent(a, b) ==
    \/ a[1] = b[1] /\ Abs(a[2] - b[2]) = 1
    \/ a[2] = b[2] /\ Abs(a[1] - b[1]) = 1

\* the cells outside the borders joined to the seed inside the window
RECURSIVE Grown(_)
Grown(cells) ==
    LET more == cells \cup {c \in Window \ borders :
                               \E near \in cells : Adjacent(near, c)}
    IN  IF more = cells THEN cells ELSE Grown(more)

Region == Grown({internal_point})

Enclosed == Region \cap Ring = {}

\* what is left of the loop: 4 queue entries for each try, and the queue
FloodRank == 4 * (max_tries - tries) + Len(queue)

\* C29: every pass of the loop brings the loop nearer to its end, and from
\* a seed outside the borders whose region is enclosed the returned cells
\* are the cells outside the borders joined to the seed.
C29_FloodFillReturnsRegion ==
    [][/\ (flood_pc = "loop" /\ flood_pc' = "loop")
            => (FloodRank' < FloodRank /\ FloodRank' >= 0)
       /\ (flood_pc' = "returned" /\ internal_point \notin borders /\ Enclosed)
            => (visited' = Region /\ visited' \cap borders = {})]_vars

\* a rectangle of 4 by 4 cells filled from one of its 4 inner cells
C29_Witness ==
    /\ flood_pc = "returned"
    /\ internal_point = <<2, 1>>
    /\ borders = span(<<0, 0>>, <<3, 3>>) \ span(<<1, 1>>, <<2, 2>>)
    /\ visited = span(<<1, 1>>, <<2, 2>>)
    /\ tries = 4

(***************************************************************************)
(* src/day4/main.py: the loop of main that removes accessible rolls.  A    *)
(* matrix of 0 and 1 is its shape and, for each row, the set of the        *)
(* columns that hold 1 (the rolls); rows and columns start at 0 as in the  *)
(* code, rows[i + 1] is row i.                                             *)
(***************************************************************************)
MaxRows == 2

MaxCols == 3

\* for i in range(1000)
MaxPasses == 1000

AccessibleBelow == 4

\* an array holds its entries: the set, element by element
Entries(cells) == {c : c \in cells}

\* np.array(matrix) of the rows read
Matrix(n_rows, n_cols, rolls) ==
    [shape |-> <<n_rows, n_cols>>,
     rows |-> [i \in 1..n_rows |->
                  Entries({j \in 0..(n_cols - 1) : <<i - 1, j>> \in rolls})]]

\* the entry of the matrix at row i and column j; outside the matrix it is
\* the 0 of np.pad(matrix, pad_width=1, constant_values=0)
Padded(matrix, i, j) ==
    IF i >= 0 /\ i < matrix.shape[1] /\ j \in matrix.rows[i + 1] THEN 1 ELSE 0

\* convolved_matrix[i, j]: np.sum(sub_matrix * stencil) with the stencil
\* [[1, 1, 1], [1, 0, 1], [1, 1, 1]] around row i and column j
ConvolvedAt(matrix, i, j) ==
    Padded(matrix, i - 1, j - 1) + Padded(matrix, i - 1, j)
      + Padded(matrix, i - 1, j + 1) + Padded(matrix, i, j - 1)
      + Padded(matrix, i, j + 1) + Padded(matrix, i + 1, j - 1)
      + Padded(matrix, i + 1, j) + Padded(matrix, i + 1, j + 1)

\* the convolved matrix, on the cells where the mask reads it: the rolls
get_convolved_matrix(matrix) ==
    [i \in 1..matrix.shape[1] |->
        [j \in matrix.rows[i] |-> ConvolvedAt(matrix, i - 1, j)]]

\* (convolved_matrix < 4) & (printing_puzzle == 1), row by row
accessible_mask(matrix, convolved_matrix) ==
    [i \in 1..matrix.shape[1] |->
        Entries({j \in matrix.rows[i] :
                    convolved_matrix[i][j] < AccessibleBelow})]

\* np.count_nonzero of the mask
determine_accessible_printing_area(matrix, convolved_matrix) ==
    SumSeq([i \in 1..matrix.shape[1] |->
               Cardinality(accessible_mask(matrix, convolved_matrix)[i])])

\* printing_puzzle[accessible_mask] = 0
remove_accessible_papers(matrix, convolved_matrix) ==
    [matrix EXCEPT !.rows =
        [i \in 1..matrix.shape[1] |->
            Entries(@[i] \ accessible_mask(matrix, convolved_matrix)[i])]]

\* the number of rolls of a matrix
Rolls(matrix) ==
    SumSeq([i \in 1..matrix.shape[1] |-> Cardinality(matrix.rows[i])])

\* two full rows that lose a column at each end in every pass
LongStrip ==
    Matrix(2, 2 * MaxPasses + 2, (0..1) \X (0..(2 * MaxPasses + 1)))

\* main up to the loop; removed_per_iteration holds the entries written
Day4Init ==
    /\ \/ \E rows \in 1..MaxRows : \E cols \in 1..MaxCols :
             \E rolls \in SUBSET ((0..(rows - 1)) \X (0..(cols - 1))) :
                printing_puzzle = Matrix(rows, cols, rolls)
       \/ printing_puzzle = LongStrip
    /\ rolls_read = Rolls(printing_puzzle)
    /\ removed_per_iteration = <<>>
    /\ paper_iteration = 0
    /\ paper_pc = "loop"
    /\ Day1Idle /\ Day5Idle /\ Day8Idle /\ Day7Idle /\ Day3Idle /\ Day9Idle
    /\ Day10Idle

\* one pass of the loop: break when no roll is accessible, else remove
LoopPass ==
    /\ paper_pc = "loop"
    /\ paper_iteration < MaxPasses
    /\ \E convolved_matrix \in {get_convolved_matrix(printing_puzzle)} :
         \E accessible_paper \in
               {determine_accessible_printing_area(printing_puzzle, convolved_matrix)} :
            IF accessible_paper = 0
            THEN /\ paper_pc' = "done"
                 /\ UNCHANGED <<printing_puzzle, removed_per_iteration,
                                paper_iteration>>
            ELSE /\ removed_per_iteration' =
                       Append(removed_per_iteration, accessible_paper)
                 /\ printing_puzzle' =
                       remove_accessible_papers(printing_puzzle, convolved_matrix)
                 /\ paper_iteration' = paper_iteration + 1
                 /\ UNCHANGED paper_pc
    /\ UNCHANGED <<rolls_read, day10_vars, overlap_vars, day1_vars,
                   day5_vars, day8_vars, day7_vars, day3_vars, day9_vars>>

\* range(1000) is used up
LoopExhausted ==
    /\ paper_pc = "loop"
    /\ paper_iteration = MaxPasses
    /\ paper_pc' = "done"
    /\ UNCHANGED <<printing_puzzle, removed_per_iteration, paper_iteration,
                   rolls_read, day10_vars, overlap_vars, day1_vars, day5_vars,
                   day8_vars, day7_vars, day3_vars, day9_vars>>

Day4Next == LoopPass \/ LoopExhausted

Day4Spec == Day4Init /\ [][Day4Next]_vars

\* the 8 steps from a cell to the cells around it
Around == (((-1)..1) \X ((-1)..1)) \ {<<0, 0>>}

\* the occupied cells among the 8 around row i and column j
OccupiedAround(matrix, i, j) ==
    {n \in Around :
        /\ i + n[1] >= 0
        /\ i + n[1] < matrix.shape[1]
        /\ j + n[2] \in matrix.rows[i + n[1] + 1]}

\* the rolls of row i with fewer than 4 occupied cells around them
AccessibleRolls(matrix, i) ==
    {j \in matrix.rows[i + 1] :
        Cardinality(OccupiedAround(matrix, i, j)) < AccessibleBelow}

\* C30: a pass removes exactly the rolls that were accessible at its start
\* and so lowers the number of rolls; when the loop is left no roll is
\* accessible and the counts add up to the rolls removed.
C30_RemovalRunsToTheEnd ==
    [][/\ paper_iteration' # paper_iteration
            => /\ \A i \in 0..(printing_puzzle.shape[1] - 1) :
                     printing_puzzle'.rows[i + 1]
                       = printing_puzzle.rows[i + 1]
                           \ AccessibleRolls(printing_puzzle, i)
               /\ Rolls(printing_puzzle') < Rolls(printing_puzzle)
       /\ paper_pc' = "done"
            => /\ \A i \in 0..(printing_puzzle'.shape[1] - 1) :
                     AccessibleRolls(printing_puzzle', i) = {}
               /\ SumSeq(removed_per_iteration')
                    = rolls_read - Rolls(printing_puzzle')]_vars

====
